---- MODULE Spec2Model ----
(***************************************************************************)
(* Run supervision of backend/job_runner.py with the Socket.IO handlers of *)
(* backend/main.py: the registry of RunStatus records, the driver process  *)
(* of each run as the operating system and the asyncio process handle see  *)
(* it, the three tasks start_run creates (stdout reader, directory         *)
(* watcher, exit waiter), the log tailers, and the request handlers.       *)
(*                                                                         *)
(* One action is one stretch of code that runs on the event loop without   *)
(* giving up control: from one await to the next.  The operating system    *)
(* (the driver, its children, the child watcher thread, the clock) moves   *)
(* on its own, also while the loop is held by time.sleep in _terminate_run.*)
(***************************************************************************)
EXTENDS Integers, Sequences, FiniteSets, TLC

\* ------------------------------------------------------------------ bounds
RegRuns == 2        \* runs started in the registry specification
MaxSec == 1         \* the clock's seconds are 0..MaxSec
MaxMicro == 1       \* the clock's microseconds are 0..MaxMicro
MaxSuffix == 1      \* uuid4().hex[:6] takes the values 0..MaxSuffix
CkptRuns == 1       \* runs started in the checkpoint specification
MaxOut == 2         \* lines a driver writes to its stdout
MaxSig == 4         \* signals sent on behalf of one run
LogRuns == 1        \* runs started in the log specification
MaxLines == 2       \* lines appended to one log file
LifeOut == 1        \* lines a driver writes in the life-cycle specification

\* `tail -F` starts with the last 10 lines of the file
TailLines == 10

VARIABLES
    clock,          \* <<second, microsecond>> of datetime.utcnow()
    recs,           \* the RunStatus objects, in creation order
    runs,           \* the registry: run id -> index of its RunStatus object
    procs,          \* per RunStatus object: its driver process and handle
    tasks,          \* per RunStatus object: where each of its tasks stands
    ev,             \* per RunStatus object: what it has published and sent
    files,          \* the log files: <<directory, name>> -> lines appended
    dirs,           \* the run ids whose private log directory exists
    blocked,        \* the object whose cancel holds the loop in time.sleep, or 0
    last            \* the last cancel, resume, status or list request and how it ended

vars == <<clock, recs, runs, procs, tasks, ev, files, dirs,
          blocked, last>>

\* ------------------------------------------------------------ Optional[T]
None == <<>>
Some(x) == <<x>>

\* a handled request: the handler, the run id it was given, how it ended
Request(op, rid, res) == [op |-> op, rid |-> rid, res |-> res]

\* ---------------------------------------------------------------- strings
\* Strings that are compared for order are sequences of character codes.
RECURSIVE StrLess(_, _)
StrLess(a, b) ==
    IF b = <<>> THEN FALSE
    ELSE IF a = <<>> THEN TRUE
    ELSE IF Head(a) # Head(b) THEN Head(a) < Head(b)
    ELSE StrLess(Tail(a), Tail(b))

Digit(n) == 48 + n
HexChar(n) == IF n < 10 THEN 48 + n ELSE 87 + n

\* strftime("%Y%m%d-%H%M%S-") + uuid4().hex[:6]: zero padded, fixed width
RunId(sec, suffix) == <<Digit(sec), 45, HexChar(suffix)>>

\* datetime.isoformat() + "Z": the fraction is left out when microsecond is 0
IsoFormat(t) ==
    IF t[2] = 0 THEN <<Digit(t[1])>> ELSE <<Digit(t[1]), 46, Digit(t[2])>>
StartTs(t) == IsoFormat(t) \o <<90>>

Instants == (0..MaxSec) \X (0..MaxMicro)
Before(s, t) == s[1] < t[1] \/ (s[1] = t[1] /\ s[2] < t[2])
Ids == {RunId(s, x) : s \in 0..MaxSec, x \in 0..MaxSuffix}

\* the shared directory "logs", as character codes like the run ids
LOGS_DIR == <<108, 111, 103, 115>>
GlobalLog == <<LOGS_DIR, "soma_run.log">>

\* --------------------------------------------------------------- registry
Objs == 1..Len(recs)
Registered == {runs[k] : k \in DOMAIN runs}

\* dict order: a key keeps the place of its first insertion
KeyPos(k) == CHOOSE o \in Objs :
    recs[o].id = k /\ \A p \in Objs : recs[p].id = k => o <= p

Active == {o \in Registered : recs[o].return_code = None}

\* sorted(active, key=start_ts)[-1].id: sorted is stable, so among equal
\* keys the last of the dict's order comes last
GetActiveRunId ==
    IF Active = {} THEN None
    ELSE LET o == CHOOSE a \in Active : \A p \in Active :
                 \/ StrLess(recs[p].start_ts, recs[a].start_ts)
                 \/ /\ recs[p].start_ts = recs[a].start_ts
                    /\ KeyPos(recs[p].id) <= KeyPos(recs[a].id)
         IN Some(recs[o].id)

\* ------------------------------------------------------------ RunStatus
NewRunStatus(id, now) ==
    [id |-> id, process |-> FALSE, start_ts |-> StartTs(now), end_ts |-> None,
     return_code |-> None, stage |-> <<"I", "N", "I", "T">>, paused |-> FALSE,
     pending_stage |-> None, log_dir |-> id]

\* the driver process: what the operating system holds (os, child, status,
\* stdout) and what the asyncio handle reports (returncode)
NewProcess(spawned) ==
    [os |-> IF spawned THEN "running" ELSE "none", child |-> "none",
     status |-> None, returncode |-> None, stdout |-> <<>>, nout |-> 0]

NewTasks(spawned) ==
    [start |-> IF spawned THEN "launching" ELSE "failed",
     reader |-> "none", line |-> 0, waiter |-> "none", watcher |-> "none",
     seen |-> {}, tails |-> <<>>]

NewEvents(now) ==
    [born |-> now, read |-> <<>>, staged |-> <<>>, driverlog |-> <<>>,
     complete |-> <<>>, resumed |-> <<>>, sig |-> <<>>, log |-> <<>>]

Init ==
    /\ clock = <<0, 0>>
    /\ recs = <<>>
    /\ runs = <<>>
    /\ procs = <<>>
    /\ tasks = <<>>
    /\ ev = <<>>
    /\ files = <<>>
    /\ dirs = {}
    /\ blocked = 0
    /\ last = Request("none", None, "none")

\* ------------------------------------------------------------- the clock
Tick ==
    /\ \E t \in Instants : Before(clock, t) /\ clock' = t
    /\ UNCHANGED <<recs, runs, procs, tasks, ev, files, dirs,
                   blocked, last>>

\* -------------------------------------------------------------- start_run
\* start_run up to the await inside create_subprocess_exec: the record is
\* made and registered, its directory created, soma_run.log truncated, and
\* the driver forked (or the launch raises).  The alert recipients taken from
\* args[0] reach only the mail sent by send_alert and are not part of the
\* state.
StartRunCall(limit, suffix, spawned) ==
    LET id == RunId(clock[1], suffix)
        o == Len(recs) + 1
    IN /\ blocked = 0
       /\ Len(recs) < limit
       /\ recs' = Append(recs, NewRunStatus(id, clock))
       /\ dirs' = dirs \cup {id}
       /\ runs' = [k \in DOMAIN runs \cup {id} |-> IF k = id THEN o ELSE runs[k]]
       /\ files' = [p \in DOMAIN files \cup {GlobalLog} |->
                        IF p = GlobalLog THEN 0 ELSE files[p]]
       /\ procs' = Append(procs, NewProcess(spawned))
       /\ tasks' = Append(tasks, NewTasks(spawned))
       /\ ev' = Append(ev, NewEvents(clock))
       /\ UNCHANGED <<clock, blocked, last>>

StartRun(limit) ==
    \E suffix \in 0..MaxSuffix : StartRunCall(limit, suffix, TRUE)

StartRunSpawnFails(limit) ==
    \E suffix \in 0..MaxSuffix : StartRunCall(limit, suffix, FALSE)

\* start_run after create_subprocess_exec has returned: run.process is set
\* and the three tasks are created
StartRunResume(o) ==
    /\ blocked = 0
    /\ tasks[o].start = "launching"
    /\ recs' = [recs EXCEPT ![o].process = TRUE]
    /\ tasks' = [tasks EXCEPT ![o].start = "done", ![o].reader = "read",
                              ![o].waiter = "wait", ![o].watcher = "poll"]
    /\ UNCHANGED <<clock, runs, procs, ev, files, dirs, blocked, last>>

\* ------------------------------------------------- the operating system
Alive(st) == st \in {"running", "stopped"}

\* the driver exits by itself with status 0 or 1
ProcExit(o) ==
    /\ procs[o].os = "running"
    /\ \E rc \in {0, 1} :
        procs' = [procs EXCEPT ![o].os = "zombie", ![o].status = Some(rc)]
    /\ UNCHANGED <<clock, recs, runs, tasks, ev, files, dirs,
                   blocked, last>>

\* waitpid by the child watcher: the pid is released
Reap(o) ==
    /\ procs[o].os = "zombie"
    /\ procs' = [procs EXCEPT ![o].os = "reaped"]
    /\ UNCHANGED <<clock, recs, runs, tasks, ev, files, dirs,
                   blocked, last>>

\* the watcher's callback on the loop: the handle learns the exit status
Observe(o) ==
    /\ blocked = 0
    /\ procs[o].os = "reaped"
    /\ procs[o].returncode = None
    /\ procs' = [procs EXCEPT ![o].returncode = procs[o].status]
    /\ UNCHANGED <<clock, recs, runs, tasks, ev, files, dirs,
                   blocked, last>>

\* ---------------------------------------------------------- _wait_for_exit
\* process.wait() has returned: return_code, end_ts, the complete event
WaitForExit(o) ==
    /\ blocked = 0
    /\ tasks[o].waiter = "wait"
    /\ procs[o].returncode # None
    /\ LET rc == procs[o].returncode[1]
       IN /\ recs' = [recs EXCEPT ![o].return_code = Some(rc),
                                  ![o].end_ts = Some(clock)]
          /\ ev' = [ev EXCEPT ![o].complete = Append(@,
                        [rc |-> rc,
                         outcome |-> IF rc = 0 THEN "success" ELSE "failure"])]
    /\ tasks' = [tasks EXCEPT ![o].waiter = "emit"]
    /\ UNCHANGED <<clock, runs, procs, files, dirs, blocked, last>>

\* Task.cancel() on every task of run.tail_tasks: a task that has not ended
\* is marked for cancellation at the await it is suspended in
CancelTails(tails) ==
    [n \in DOMAIN tails |->
        IF tails[n].st \in {"created", "spawn", "follow"}
        THEN [tails[n] EXCEPT !.st = "cancelled", !.at = tails[n].st]
        ELSE tails[n]]

\* after the emit: the tailers are cancelled
WaitForExitCancelTails(o) ==
    /\ blocked = 0
    /\ tasks[o].waiter = "emit"
    /\ tasks' = [tasks EXCEPT ![o].waiter = "done", ![o].tails = CancelTails(@)]
    /\ UNCHANGED <<clock, recs, runs, procs, ev, files, dirs,
                   blocked, last>>

\* ------------------------------------------------------- the driver's stdout
\* The lines a driver writes, as the characters readline() returns them
\* (without the newline that rstrip removes).
LineText(n) ==
    CASE n = 1 -> <<"o", "k">>
      [] n = 2 -> <<"=", "=", "=", " ", "F", "O", "O", " ",
                    "S", "T", "A", "R", "T", " ", "=", "=", "=">>
      [] n = 3 -> <<"=", "=", "=", " ", "B", "A", "R", " ",
                    "S", "T", "A", "R", "T", " ", "=", "=", "=">>
      [] n = 4 -> <<"=", "=", "=", " ", "C", "O", "N", "F", "I", "G", " ",
                    "S", "T", "A", "R", "T", " ", "=", "=", "=">>
      [] OTHER -> <<"=", "=", "=", " ", "=", "=", "=">>
Lines == 1..5

StartsWith(s, p) == Len(s) >= Len(p) /\ SubSeq(s, 1, Len(p)) = p

RECURSIVE LStrip(_, _)
LStrip(s, cs) ==
    IF s # <<>> /\ Head(s) \in cs THEN LStrip(Tail(s), cs) ELSE s

RECURSIVE RStrip(_, _)
RStrip(s, cs) ==
    IF s # <<>> /\ s[Len(s)] \in cs THEN RStrip(SubSeq(s, 1, Len(s) - 1), cs)
    ELSE s

\* str.strip("= ")
Strip(s, cs) == RStrip(LStrip(s, cs), cs)

\* str.split(): the maximal runs of characters that are not whitespace
RECURSIVE SplitFrom(_, _, _)
SplitFrom(s, word, parts) ==
    IF s = <<>> THEN (IF word = <<>> THEN parts ELSE Append(parts, word))
    ELSE IF Head(s) = " "
         THEN SplitFrom(Tail(s), <<>>,
                        IF word = <<>> THEN parts ELSE Append(parts, word))
         ELSE SplitFrom(Tail(s), Append(word, Head(s)), parts)
Split(s) == SplitFrom(s, <<>>, <<>>)

\* the stage a line names, if it is a marker line
StageOf(decoded) ==
    IF StartsWith(decoded, <<"=", "=", "=", " ">>)
    THEN LET parts == Split(Strip(decoded, {"=", " "}))
         IN IF Len(parts) >= 1 THEN Some(parts[1]) ELSE None
    ELSE None

PassThrough == {<<"C", "O", "N", "F", "I", "G">>,
                <<"C", "O", "M", "P", "L", "E", "T", "E">>}

\* the driver writes a line to its stdout, at most limit lines in all
DriverWriteUpTo(o, limit) ==
    /\ procs[o].os = "running"
    /\ procs[o].nout < limit
    /\ \E n \in Lines :
        procs' = [procs EXCEPT ![o].stdout = Append(@, n), ![o].nout = @ + 1]
    /\ UNCHANGED <<clock, recs, runs, tasks, ev, files, dirs,
                   blocked, last>>

DriverWrite(o) == DriverWriteUpTo(o, MaxOut)

\* the driver starts a child, which is in the driver's process group
DriverFork(o) ==
    /\ procs[o].os = "running"
    /\ procs[o].child = "none"
    /\ procs' = [procs EXCEPT ![o].child = "running"]
    /\ UNCHANGED <<clock, recs, runs, tasks, ev, files, dirs,
                   blocked, last>>

ChildExit(o) ==
    /\ procs[o].child = "running"
    /\ procs' = [procs EXCEPT ![o].child = "dead"]
    /\ UNCHANGED <<clock, recs, runs, tasks, ev, files, dirs,
                   blocked, last>>

\* os.kill(pid, sig): the pid must exist (a zombie's does, a reaped one's not)
PidExists(o) == procs[o].os \in {"running", "stopped", "zombie"}
\* os.killpg(pgid, sig): some process of the group must exist
GroupExists(o) == PidExists(o) \/ procs[o].child = "running"

\* ------------------------------------------------------ _read_driver_stdout
\* readline() returns b"": every write end of the pipe is closed
ReaderEof(o) ==
    /\ blocked = 0
    /\ tasks[o].reader = "read"
    /\ procs[o].stdout = <<>>
    /\ ~Alive(procs[o].os) /\ procs[o].child # "running"
    /\ tasks' = [tasks EXCEPT ![o].reader = "done"]
    /\ UNCHANGED <<clock, recs, runs, procs, ev, files, dirs,
                   blocked, last>>

\* readline() returns a line that names no stage: it is published as a log
\* event and the loop awaits the next line
ReaderPlainLine(o) ==
    /\ blocked = 0
    /\ tasks[o].reader = "read"
    /\ procs[o].stdout # <<>>
    /\ LET n == Head(procs[o].stdout)
       IN /\ StageOf(LineText(n)) = None
          /\ ev' = [ev EXCEPT ![o].read = Append(@, n),
                              ![o].driverlog = Append(@, LineText(n))]
    /\ procs' = [procs EXCEPT ![o].stdout = Tail(@)]
    /\ UNCHANGED <<clock, recs, runs, tasks, files, dirs,
                   blocked, last>>

\* readline() returns a marker line: run.stage is set and the stage event
\* published; the task is then in the await of that emit
ReaderMarkerLine(o) ==
    /\ blocked = 0
    /\ tasks[o].reader = "read"
    /\ procs[o].stdout # <<>>
    /\ LET n == Head(procs[o].stdout)
           st == StageOf(LineText(n))
       IN /\ st # None
          /\ recs' = [recs EXCEPT ![o].stage = st[1]]
          /\ ev' = [ev EXCEPT ![o].read = Append(@, n),
                              ![o].staged = Append(@, <<"stage", st[1]>>)]
          /\ tasks' = [tasks EXCEPT
                 ![o].reader = IF st[1] \in PassThrough THEN "log" ELSE "pause",
                 ![o].line = n]
    /\ procs' = [procs EXCEPT ![o].stdout = Tail(@)]
    /\ UNCHANGED <<clock, runs, files, dirs, blocked, last>>

\* the checkpoint branch without the assignment of run.pending_stage
ReaderPauseMutant(o) ==
    /\ blocked = 0
    /\ tasks[o].reader = "pause"
    /\ LET st == StageOf(LineText(tasks[o].line))[1]
       IN IF recs[o].process /\ ~PidExists(o)
          THEN /\ tasks' = [tasks EXCEPT ![o].reader = "crashed"]
               /\ UNCHANGED <<recs, procs, ev>>
          ELSE /\ procs' = [procs EXCEPT ![o].os =
                      IF recs[o].process /\ @ = "running" THEN "stopped" ELSE @]
               /\ recs' = [recs EXCEPT ![o].paused = recs[o].process \/ @]
               /\ ev' = [ev EXCEPT
                      ![o].sig = IF recs[o].process
                                 THEN Append(@, <<"SIGSTOP", "pid">>) ELSE @,
                      ![o].staged = Append(@, <<"paused", st>>)]
               /\ tasks' = [tasks EXCEPT ![o].reader = "alert"]
    /\ UNCHANGED <<clock, runs, files, dirs, blocked, last>>

\* _pause_process, pending_stage, the paused event, and send_alert_async
\* handed to the executor.  os.kill raises ProcessLookupError when the pid
\* is gone, which ends the reader task.
ReaderPause(o) ==
    /\ blocked = 0
    /\ tasks[o].reader = "pause"
    /\ LET st == StageOf(LineText(tasks[o].line))[1]
       IN IF recs[o].process /\ ~PidExists(o)
          THEN /\ tasks' = [tasks EXCEPT ![o].reader = "crashed"]
               /\ UNCHANGED <<recs, procs, ev>>
          ELSE /\ procs' = [procs EXCEPT ![o].os =
                      IF recs[o].process /\ @ = "running" THEN "stopped" ELSE @]
               /\ recs' = [recs EXCEPT ![o].paused = recs[o].process \/ @,
                                       ![o].pending_stage = Some(st)]
               /\ ev' = [ev EXCEPT
                      ![o].sig = IF recs[o].process
                                 THEN Append(@, <<"SIGSTOP", "pid">>) ELSE @,
                      ![o].staged = Append(@, <<"paused", st>>)]
               /\ tasks' = [tasks EXCEPT ![o].reader = "alert"]
    /\ UNCHANGED <<clock, runs, files, dirs, blocked, last>>

\* send_alert is run by an executor thread and the reader awaits its future.
\* smtplib.SMTP(host, port) is built without a timeout, so a server that
\* accepts the connection and never answers keeps the thread, and with it the
\* await of the reader, for ever.
SendAlertHangs(o) ==
    /\ tasks[o].reader = "alert"
    /\ tasks' = [tasks EXCEPT ![o].reader = "hung"]
    /\ UNCHANGED <<clock, recs, runs, procs, ev, files, dirs,
                   blocked, last>>

\* send_alert_async has returned, the mail sent or the failure caught and
\* printed by send_alert: the marker line is published as a log event
ReaderAlertDone(o) ==
    /\ blocked = 0
    /\ tasks[o].reader = "alert"
    /\ ev' = [ev EXCEPT ![o].driverlog = Append(@, LineText(tasks[o].line))]
    /\ tasks' = [tasks EXCEPT ![o].reader = "read", ![o].line = 0]
    /\ UNCHANGED <<clock, recs, runs, procs, files, dirs,
                   blocked, last>>

\* a pass-through marker line is published as a log event
ReaderLog(o) ==
    /\ blocked = 0
    /\ tasks[o].reader = "log"
    /\ ev' = [ev EXCEPT ![o].driverlog = Append(@, LineText(tasks[o].line))]
    /\ tasks' = [tasks EXCEPT ![o].reader = "read", ![o].line = 0]
    /\ UNCHANGED <<clock, recs, runs, procs, files, dirs,
                   blocked, last>>

\* --------------------------------------------------------- the run ids asked
\* a run id no start_run has produced
UnknownId == <<63>>
AskedIds == DOMAIN runs \cup {UnknownId}

\* ------------------------------------------------------------ continue_stage
\* _resume_process when os.kill does not raise: nothing when run.process is
\* not set; otherwise SIGCONT reaches the pid and paused is cleared
ResumeProcess(o) ==
    IF recs[o].process
    THEN /\ procs' = [procs EXCEPT ![o].os =
                          IF @ = "stopped" THEN "running" ELSE @]
         /\ recs' = [recs EXCEPT ![o].paused = FALSE]
    ELSE UNCHANGED <<procs, recs>>

\* continue_stage without its test of run.paused
ContinueStageMutant(rid) ==
    /\ blocked = 0
    /\ IF rid \notin DOMAIN runs
       THEN /\ last' = Request("resume", Some(rid), "ignored")
            /\ UNCHANGED <<recs, procs, ev>>
       ELSE LET o == runs[rid]
            IN IF recs[o].process /\ ~PidExists(o)
               THEN /\ last' = Request("resume", Some(rid), "error")
                    /\ UNCHANGED <<recs, procs, ev>>
               ELSE /\ ResumeProcess(o)
                    /\ ev' = [ev EXCEPT
                           ![o].sig = IF recs[o].process
                                      THEN Append(@, <<"SIGCONT", "pid">>)
                                      ELSE @,
                           ![o].resumed = Append(@, recs[o].pending_stage)]
                    /\ last' = Request("resume", Some(rid), "ok")
    /\ UNCHANGED <<clock, runs, tasks, files, dirs, blocked>>

\* continue_stage: an unknown id and a run that is not paused are passed
\* over; os.kill raises ProcessLookupError when the pid is gone
ContinueStage(rid) ==
    /\ blocked = 0
    /\ IF rid \notin DOMAIN runs \/ ~recs[runs[rid]].paused
       THEN /\ last' = Request("resume", Some(rid), "ignored")
            /\ UNCHANGED <<recs, procs, ev>>
       ELSE LET o == runs[rid]
            IN IF recs[o].process /\ ~PidExists(o)
               THEN /\ last' = Request("resume", Some(rid), "error")
                    /\ UNCHANGED <<recs, procs, ev>>
               ELSE /\ ResumeProcess(o)
                    /\ ev' = [ev EXCEPT
                           ![o].sig = IF recs[o].process
                                      THEN Append(@, <<"SIGCONT", "pid">>)
                                      ELSE @,
                           ![o].resumed = Append(@, recs[o].pending_stage)]
                    /\ last' = Request("resume", Some(rid), "ok")
    /\ UNCHANGED <<clock, runs, tasks, files, dirs, blocked>>

\* ------------------------------------------------ cancel_run, _terminate_run
\* shutil.rmtree(run.log_dir) inside try/except: it removes the directory
\* with its files, or fails and leaves it
RmTree(d, removed) ==
    IF d \in dirs /\ removed
    THEN /\ dirs' = dirs \ {d}
         /\ files' = [p \in {q \in DOMAIN files : q[1] # d} |-> files[p]]
    ELSE UNCHANGED <<dirs, files>>

\* cancel_run for an unknown id (KeyError), or for a run whose handle is not
\* set or has a returncode: no signal, only the directory is removed
CancelRunNoSignal(rid) ==
    /\ blocked = 0
    /\ IF rid \notin DOMAIN runs
       THEN /\ last' = Request("cancel", Some(rid), "NotFound")
            /\ UNCHANGED <<dirs, files>>
       ELSE /\ ~(recs[runs[rid]].process /\ procs[runs[rid]].returncode = None)
            /\ \E removed \in BOOLEAN : RmTree(recs[runs[rid]].log_dir, removed)
            /\ last' = Request("cancel", Some(rid), "ok")
    /\ UNCHANGED <<clock, recs, runs, procs, tasks, ev, blocked>>

\* cancel_run for a run whose handle has no returncode, up to time.sleep:
\* os.getpgid raises ProcessLookupError for a reaped pid (not caught);
\* otherwise SIGTERM goes to the group and the loop is held
CancelRunTerm(rid) ==
    /\ blocked = 0
    /\ rid \in DOMAIN runs
    /\ LET o == runs[rid]
       IN /\ recs[o].process /\ procs[o].returncode = None
          /\ IF ~PidExists(o)
             THEN /\ last' = Request("cancel", Some(rid), "error")
                  /\ UNCHANGED <<ev, blocked>>
             ELSE /\ Len(ev[o].sig) + 2 <= MaxSig
                  /\ ev' = [ev EXCEPT ![o].sig = Append(@, <<"SIGTERM", "group">>)]
                  /\ blocked' = o
                  /\ UNCHANGED last
    /\ UNCHANGED <<clock, recs, runs, procs, tasks, files, dirs>>

\* _terminate_run that also records the kill in the run's return_code
CancelRunKillMutant(o) ==
    /\ blocked = o
    /\ IF GroupExists(o)
       THEN /\ ev' = [ev EXCEPT ![o].sig = Append(@, <<"SIGKILL", "group">>)]
            /\ procs' = [procs EXCEPT
                   ![o].os = IF Alive(@) THEN "zombie" ELSE @,
                   ![o].status = IF Alive(procs[o].os) THEN Some(-9) ELSE @,
                   ![o].child = IF @ = "running" THEN "dead" ELSE @]
       ELSE UNCHANGED <<ev, procs>>
    /\ \E removed \in BOOLEAN : RmTree(recs[o].log_dir, removed)
    /\ blocked' = 0
    /\ last' = Request("cancel", Some(recs[o].id), "ok")
    /\ recs' = [recs EXCEPT ![o].return_code = Some(-9)]
    /\ UNCHANGED <<clock, runs, tasks>>

\* after time.sleep: SIGKILL to the group (ProcessLookupError is caught when
\* the group is gone), then the directory is removed and cancel_run returns
CancelRunKill(o) ==
    /\ blocked = o
    /\ IF GroupExists(o)
       THEN /\ ev' = [ev EXCEPT ![o].sig = Append(@, <<"SIGKILL", "group">>)]
            /\ procs' = [procs EXCEPT
                   ![o].os = IF Alive(@) THEN "zombie" ELSE @,
                   ![o].status = IF Alive(procs[o].os) THEN Some(-9) ELSE @,
                   ![o].child = IF @ = "running" THEN "dead" ELSE @]
       ELSE UNCHANGED <<ev, procs>>
    /\ \E removed \in BOOLEAN : RmTree(recs[o].log_dir, removed)
    /\ blocked' = 0
    /\ last' = Request("cancel", Some(recs[o].id), "ok")
    /\ UNCHANGED <<clock, recs, runs, tasks>>

\* ------------------------------------------------ get_status, list_log_files
GetStatus(rid) ==
    /\ blocked = 0
    /\ last' = Request("status", Some(rid),
                       IF rid \in DOMAIN runs THEN "ok" ELSE "NotFound")
    /\ UNCHANGED <<clock, recs, runs, procs, tasks, ev, files, dirs, blocked>>

\* log_dir_for(run_id) creates the directory; nothing looks the id up
ListLogFiles(rid) ==
    /\ blocked = 0
    /\ dirs' = dirs \cup {rid}
    /\ last' = Request("list", Some(rid), "ok")
    /\ UNCHANGED <<clock, recs, runs, procs, tasks, ev, files,
                   blocked>>

\* ---------------------------------------------------------- the log files
LogNames == {"a.log", "soma_run.log"}
NameOfGlobalLog == GlobalLog[2]

\* the driver creates a log file in its LOGS_DIR, the run's directory
DriverCreateLog(o) ==
    /\ procs[o].os = "running"
    /\ recs[o].log_dir \in dirs
    /\ \E name \in LogNames :
        /\ <<recs[o].log_dir, name>> \notin DOMAIN files
        /\ files' = [p \in DOMAIN files \cup {<<recs[o].log_dir, name>>} |->
                         IF p \in DOMAIN files THEN files[p] ELSE 0]
    /\ UNCHANGED <<clock, recs, runs, procs, tasks, ev, dirs, blocked, last>>

\* the driver appends a line to one of its log files
DriverAppend(o) ==
    /\ procs[o].os = "running"
    /\ \E name \in LogNames :
        /\ <<recs[o].log_dir, name>> \in DOMAIN files
        /\ files[<<recs[o].log_dir, name>>] < MaxLines
        /\ files' = [files EXCEPT ![<<recs[o].log_dir, name>>] = @ + 1]
    /\ UNCHANGED <<clock, recs, runs, procs, tasks, ev, dirs, blocked, last>>

\* ---------------------------------------------------------- _watch_new_logs
\* d.glob("*.log") over search_dirs, the run's directory first: the names
\* found, each with the directory it is first found in
Found(o) ==
    {p \in DOMAIN files :
        \/ p[1] = recs[o].log_dir /\ p[1] \in dirs
        \/ p[1] = LOGS_DIR /\ ~(<<recs[o].log_dir, p[2]>> \in DOMAIN files
                                 /\ recs[o].log_dir \in dirs)}

\* a set of paths as a list, in some order of the directory listing
RECURSIVE ListOf(_)
ListOf(paths) ==
    IF paths = {} THEN <<>>
    ELSE LET p == CHOOSE q \in paths : TRUE
         IN <<p>> \o ListOf(paths \ {p})

\* asyncio.create_task(_tail_file(run, lf)): the task has not run yet
NewTailer(path) ==
    [name |-> path[2], dir |-> path[1], st |-> "created", at |-> "none",
     pos |-> 0, proc |-> "none"]

RECURSIVE NewTailers(_)
NewTailers(paths) ==
    IF paths = <<>> THEN <<>>
    ELSE <<NewTailer(Head(paths))>> \o NewTailers(Tail(paths))

\* one cycle of a loop that does not test run.process.returncode
WatchPollNoExitTest(o) ==
    /\ blocked = 0
    /\ tasks[o].watcher = "poll"
    /\ LET new == {p \in Found(o) : p[2] \notin tasks[o].seen}
       IN /\ new # {}
          /\ tasks' = [tasks EXCEPT
                 ![o].seen = @ \cup {p[2] : p \in new},
                 ![o].tails = @ \o NewTailers(ListOf(new))]
    /\ UNCHANGED <<clock, recs, runs, procs, ev, files, dirs, blocked, last>>

\* one cycle of the loop without the test of the seen set
WatchPollMutant(o) ==
    /\ blocked = 0
    /\ tasks[o].watcher = "poll"
    /\ recs[o].process /\ procs[o].returncode = None
    /\ LET new == Found(o)
       IN /\ new # {}
          /\ tasks' = [tasks EXCEPT
                 ![o].seen = @ \cup {p[2] : p \in new},
                 ![o].tails = @ \o NewTailers(ListOf(new))]
    /\ UNCHANGED <<clock, recs, runs, procs, ev, files, dirs, blocked, last>>

\* one cycle of the loop: a tailer task for every name not seen before,
\* appended to run.tail_tasks
WatchPoll(o) ==
    /\ blocked = 0
    /\ tasks[o].watcher = "poll"
    /\ recs[o].process /\ procs[o].returncode = None
    /\ LET new == {p \in Found(o) : p[2] \notin tasks[o].seen}
       IN /\ new # {}
          /\ tasks' = [tasks EXCEPT
                 ![o].seen = @ \cup {p[2] : p \in new},
                 ![o].tails = @ \o NewTailers(ListOf(new))]
    /\ UNCHANGED <<clock, recs, runs, procs, ev, files, dirs, blocked, last>>

\* the loop condition fails: the finally block cancels the tailers
WatchExit(o) ==
    /\ blocked = 0
    /\ tasks[o].watcher = "poll"
    /\ ~(recs[o].process /\ procs[o].returncode = None)
    /\ tasks' = [tasks EXCEPT ![o].watcher = "done", ![o].tails = CancelTails(@)]
    /\ UNCHANGED <<clock, recs, runs, procs, ev, files, dirs, blocked, last>>

\* ---------------------------------------------------------------- _tail_file
LinesOf(path) == IF path \in DOMAIN files THEN files[path] ELSE 0

Tailers(o) == DOMAIN tasks[o].tails

\* the task's first step: create_subprocess_exec forks `tail -F` and awaits
\* the transport
TailSpawn(o, i) ==
    /\ blocked = 0
    /\ i \in Tailers(o)
    /\ tasks[o].tails[i].st = "created"
    /\ tasks' = [tasks EXCEPT ![o].tails[i].st = "spawn",
                              ![o].tails[i].proc = "alive"]
    /\ UNCHANGED <<clock, recs, runs, procs, ev, files, dirs, blocked, last>>

\* create_subprocess_exec("tail", "-F", path) has returned: tail starts with
\* the last TailLines lines of the file
TailStart(o, i) ==
    /\ blocked = 0
    /\ i \in Tailers(o)
    /\ tasks[o].tails[i].st = "spawn"
    /\ LET n == LinesOf(<<tasks[o].tails[i].dir, tasks[o].tails[i].name>>)
       IN tasks' = [tasks EXCEPT
              ![o].tails[i].st = "follow",
              ![o].tails[i].pos = IF n > TailLines THEN n - TailLines ELSE 0]
    /\ UNCHANGED <<clock, recs, runs, procs, ev, files, dirs, blocked, last>>

\* readline() returns the next line of the file, which is published
TailLine(o, i) ==
    /\ blocked = 0
    /\ i \in Tailers(o)
    /\ tasks[o].tails[i].st = "follow"
    /\ LET t == tasks[o].tails[i]
       IN /\ t.pos < LinesOf(<<t.dir, t.name>>)
          /\ ev' = [ev EXCEPT ![o].log = Append(@, <<t.name, t.dir, t.pos + 1>>)]
          /\ tasks' = [tasks EXCEPT ![o].tails[i].pos = @ + 1]
    /\ UNCHANGED <<clock, recs, runs, procs, files, dirs, blocked, last>>

\* the cancelled task's next step without proc.kill() in the handler of
\* CancelledError
TailCancelledMutant(o, i) ==
    /\ blocked = 0
    /\ i \in Tailers(o)
    /\ tasks[o].tails[i].st = "cancelled"
    /\ tasks' = [tasks EXCEPT
           ![o].tails[i].st = "ended",
           ![o].tails[i].proc =
               CASE tasks[o].tails[i].at = "created" -> "none"
                 [] tasks[o].tails[i].at = "spawn" -> "dead"
                 [] OTHER -> @]
    /\ UNCHANGED <<clock, recs, runs, procs, ev, files, dirs, blocked, last>>

\* the cancelled task's next step raises CancelledError at the await it is
\* suspended in.  Before its first step: nothing has been forked.  Inside
\* create_subprocess_exec: asyncio closes the transport it is waiting for,
\* which kills tail, before the error leaves the call.  In the readline
\* loop: the handler of CancelledError calls proc.kill().
TailCancelled(o, i) ==
    /\ blocked = 0
    /\ i \in Tailers(o)
    /\ tasks[o].tails[i].st = "cancelled"
    /\ tasks' = [tasks EXCEPT
           ![o].tails[i].st = "ended",
           ![o].tails[i].proc =
               CASE tasks[o].tails[i].at = "created" -> "none"
                 [] tasks[o].tails[i].at = "spawn" -> "dead"
                 [] OTHER -> "dead"]
    /\ UNCHANGED <<clock, recs, runs, procs, ev, files, dirs, blocked, last>>

\* --------------------------------------------------- registry specification
NextReg ==
    \/ Tick
    \/ StartRun(RegRuns)
    \/ StartRunSpawnFails(RegRuns)
    \/ \E o \in Objs : StartRunResume(o)
    \/ \E o \in Objs : ProcExit(o)
    \/ \E o \in Objs : Reap(o)
    \/ \E o \in Objs : Observe(o)
    \/ \E o \in Objs : WaitForExit(o)
    \/ \E o \in Objs : WaitForExitCancelTails(o)

SpecReg == Init /\ [][NextReg]_vars

\* ------------------------------------------------- checkpoint specification
\* One run with its reader and exit waiter, the driver writing to stdout, and
\* the request handlers.
NextRun ==
    \/ StartRun(CkptRuns)
    \/ StartRunSpawnFails(CkptRuns)
    \/ \E o \in Objs : StartRunResume(o)
    \/ \E o \in Objs : DriverWrite(o)
    \/ \E o \in Objs : DriverFork(o)
    \/ \E o \in Objs : ChildExit(o)
    \/ \E o \in Objs : ProcExit(o)
    \/ \E o \in Objs : Reap(o)
    \/ \E o \in Objs : Observe(o)
    \/ \E o \in Objs : ReaderEof(o)
    \/ \E o \in Objs : ReaderPlainLine(o)
    \/ \E o \in Objs : ReaderMarkerLine(o)
    \/ \E o \in Objs : ReaderPause(o)
    \/ \E o \in Objs : ReaderAlertDone(o)
    \/ \E o \in Objs : ReaderLog(o)
    \/ \E o \in Objs : WaitForExit(o)
    \/ \E o \in Objs : WaitForExitCancelTails(o)
    \/ \E rid \in AskedIds : ContinueStage(rid)
    \/ \E rid \in AskedIds : CancelRunNoSignal(rid)
    \/ \E rid \in AskedIds : CancelRunTerm(rid)
    \/ \E o \in Objs : CancelRunKill(o)

SpecRun == Init /\ [][NextRun]_vars

\* ------------------------------------------------------ resume specification
\* The first start_run of the server, the reader of that run and the resume
\* requests for it, with the driver writing to stdout and exiting.
StartFirstRun ==
    /\ recs = <<>>
    /\ StartRun(RegRuns)

NextCkpt ==
    \/ StartFirstRun
    \/ \E o \in Objs : StartRunResume(o)
    \/ \E o \in Objs : DriverWrite(o)
    \/ \E o \in Objs : ProcExit(o)
    \/ \E o \in Objs : Reap(o)
    \/ \E o \in Objs : Observe(o)
    \/ \E o \in Objs : ReaderEof(o)
    \/ \E o \in Objs : ReaderPlainLine(o)
    \/ \E o \in Objs : ReaderMarkerLine(o)
    \/ \E o \in Objs : ReaderPause(o)
    \/ \E o \in Objs : ReaderAlertDone(o)
    \/ \E o \in Objs : ReaderLog(o)
    \/ \E o \in Objs : WaitForExit(o)
    \/ \E o \in Objs : WaitForExitCancelTails(o)
    \/ \E rid \in AskedIds : ContinueStage(rid)

SpecCkpt == Init /\ [][NextCkpt]_vars

\* -------------------------------------------------- requests specification
\* The four request handlers, for registered and unknown run ids, against
\* runs whose drivers write nothing.
NextApi ==
    \/ StartRun(CkptRuns)
    \/ StartRunSpawnFails(CkptRuns)
    \/ \E o \in Objs : StartRunResume(o)
    \/ \E o \in Objs : ProcExit(o)
    \/ \E o \in Objs : Reap(o)
    \/ \E o \in Objs : Observe(o)
    \/ \E o \in Objs : ReaderEof(o)
    \/ \E o \in Objs : WaitForExit(o)
    \/ \E o \in Objs : WaitForExitCancelTails(o)
    \/ \E rid \in AskedIds : ContinueStage(rid)
    \/ \E rid \in AskedIds : CancelRunNoSignal(rid)
    \/ \E rid \in AskedIds : CancelRunTerm(rid)
    \/ \E o \in Objs : CancelRunKill(o)
    \/ \E rid \in AskedIds : GetStatus(rid)
    \/ \E rid \in AskedIds : ListLogFiles(rid)

SpecApi == Init /\ [][NextApi]_vars

\* --------------------------------------------------------- log specification
\* One run whose driver creates and appends to log files, with the watcher,
\* the tailers and the exit waiter.
NextLog ==
    \/ StartRun(LogRuns)
    \/ \E o \in Objs : StartRunResume(o)
    \/ \E o \in Objs : DriverCreateLog(o)
    \/ \E o \in Objs : DriverAppend(o)
    \/ \E o \in Objs : ProcExit(o)
    \/ \E o \in Objs : Reap(o)
    \/ \E o \in Objs : Observe(o)
    \/ \E o \in Objs : ReaderEof(o)
    \/ \E o \in Objs : WatchPoll(o)
    \/ \E o \in Objs : WatchExit(o)
    \/ \E o \in Objs : \E i \in Tailers(o) : TailSpawn(o, i)
    \/ \E o \in Objs : \E i \in Tailers(o) : TailStart(o, i)
    \/ \E o \in Objs : \E i \in Tailers(o) : TailLine(o, i)
    \/ \E o \in Objs : \E i \in Tailers(o) : TailCancelled(o, i)
    \/ \E o \in Objs : WaitForExit(o)
    \/ \E o \in Objs : WaitForExitCancelTails(o)

SpecLog == Init /\ [][NextLog]_vars

\* --------------------------------------------------- life-cycle specification
\* The first run of the server from start to the exit waiter's end, with its
\* reader and the cancel, resume and status requests for it.
NextLife ==
    \/ StartFirstRun
    \/ \E o \in Objs : StartRunResume(o)
    \/ \E o \in Objs : DriverWriteUpTo(o, LifeOut)
    \/ \E o \in Objs : ProcExit(o)
    \/ \E o \in Objs : Reap(o)
    \/ \E o \in Objs : Observe(o)
    \/ \E o \in Objs : ReaderEof(o)
    \/ \E o \in Objs : ReaderPlainLine(o)
    \/ \E o \in Objs : ReaderMarkerLine(o)
    \/ \E o \in Objs : ReaderPause(o)
    \/ \E o \in Objs : ReaderAlertDone(o)
    \/ \E o \in Objs : ReaderLog(o)
    \/ \E o \in Objs : WaitForExit(o)
    \/ \E o \in Objs : WaitForExitCancelTails(o)
    \/ \E rid \in DOMAIN runs : ContinueStage(rid)
    \/ \E rid \in DOMAIN runs : CancelRunNoSignal(rid)
    \/ \E rid \in DOMAIN runs : CancelRunTerm(rid)
    \/ \E o \in Objs : CancelRunKill(o)
    \/ \E rid \in DOMAIN runs : GetStatus(rid)

SpecLife == Init /\ [][NextLife]_vars

\* ----------------------------------------------------- two-run specification
\* Two runs side by side, each with its reader, and the cancel requests for
\* them, up to the death of the drivers.
NextPair ==
    \/ StartRun(RegRuns)
    \/ \E o \in Objs : StartRunResume(o)
    \/ \E o \in Objs : DriverWriteUpTo(o, LifeOut)
    \/ \E o \in Objs : ReaderPlainLine(o)
    \/ \E o \in Objs : ReaderMarkerLine(o)
    \/ \E o \in Objs : ReaderPause(o)
    \/ \E o \in Objs : ReaderAlertDone(o)
    \/ \E o \in Objs : ReaderLog(o)
    \/ \E rid \in DOMAIN runs : CancelRunTerm(rid)
    \/ \E o \in Objs : CancelRunKill(o)

SpecPair == Init /\ [][NextPair]_vars

\* ------------------------------------------------------- tailer specification
\* The first run of the server with its watcher, tailers and exit waiter, the
\* driver creating and appending to log files and exiting.
NextTail ==
    \/ StartFirstRun
    \/ \E o \in Objs : StartRunResume(o)
    \/ \E o \in Objs : DriverCreateLog(o)
    \/ \E o \in Objs : DriverAppend(o)
    \/ \E o \in Objs : ProcExit(o)
    \/ \E o \in Objs : Reap(o)
    \/ \E o \in Objs : Observe(o)
    \/ \E o \in Objs : ReaderEof(o)
    \/ \E o \in Objs : WatchPoll(o)
    \/ \E o \in Objs : WatchExit(o)
    \/ \E o \in Objs : \E i \in Tailers(o) : TailSpawn(o, i)
    \/ \E o \in Objs : \E i \in Tailers(o) : TailStart(o, i)
    \/ \E o \in Objs : \E i \in Tailers(o) : TailLine(o, i)
    \/ \E o \in Objs : \E i \in Tailers(o) : TailCancelled(o, i)
    \/ \E o \in Objs : WaitForExit(o)
    \/ \E o \in Objs : WaitForExitCancelTails(o)

SpecTail == Init /\ [][NextTail]_vars

\* -------------------------------------------------- notification specification
\* The first run of the server with its reader, the resume requests, and a
\* Notification Sink that sends, fails or never returns.
NextAlert ==
    \/ StartFirstRun
    \/ \E o \in Objs : StartRunResume(o)
    \/ \E o \in Objs : DriverWrite(o)
    \/ \E o \in Objs : ProcExit(o)
    \/ \E o \in Objs : Reap(o)
    \/ \E o \in Objs : Observe(o)
    \/ \E o \in Objs : ReaderEof(o)
    \/ \E o \in Objs : ReaderPlainLine(o)
    \/ \E o \in Objs : ReaderMarkerLine(o)
    \/ \E o \in Objs : ReaderPause(o)
    \/ \E o \in Objs : SendAlertHangs(o)
    \/ \E o \in Objs : ReaderAlertDone(o)
    \/ \E o \in Objs : ReaderLog(o)
    \/ \E o \in Objs : WaitForExit(o)
    \/ \E o \in Objs : WaitForExitCancelTails(o)
    \/ \E rid \in AskedIds : ContinueStage(rid)

SpecAlert == Init /\ [][NextAlert]_vars

\* ------------------------------------------------------------ claims C1..C3
Returned(o) == tasks[o].start = "done"
CompleteEvents(k) == {o \in Objs : recs[o].id = k /\ ev[o].complete # <<>>}
Exited(o) == procs[o].os \in {"zombie", "reaped"}

\* C1: for every run id at most one complete event is ever published, and a
\* record publishes it only once its driver process has exited.
C1_OneCompletePerRunId ==
    /\ \A k \in Ids : Cardinality(CompleteEvents(k)) <= 1
    /\ \A o \in Objs : Len(ev[o].complete) <= 1
    /\ \A o \in Objs : ev[o].complete # <<>> => Exited(o)

\* C2: the run id a successful start_run returns differs from and is
\* lexicographically strictly greater than the id of every earlier
\* successful start_run.
C2_IdsUniqueAndIncreasing ==
    \A a, b \in Objs :
        (a < b /\ Returned(a) /\ Returned(b)) =>
            /\ recs[a].id # recs[b].id
            /\ StrLess(recs[a].id, recs[b].id)

\* C3: get_active_run_id() is none iff no registered record has an unset
\* return_code; otherwise it is the id of a registered record with unset
\* return_code that no other such record was started after.
C3_ActiveIsLatestUnset ==
    /\ (GetActiveRunId = None) <=> (Active = {})
    /\ GetActiveRunId # None =>
           \E o \in Active :
               /\ recs[o].id = GetActiveRunId[1]
               /\ \A p \in Active : ~Before(ev[o].born, ev[p].born)

\* ----------------------------------------------------------- claims C4..C9
IsCheckpoint(n) ==
    StageOf(LineText(n)) # None /\ StageOf(LineText(n))[1] \notin PassThrough

\* the stage and paused events that the lines read call for, in their order
RECURSIVE Expected(_)
Expected(read) ==
    IF read = <<>> THEN <<>>
    ELSE LET st == StageOf(LineText(Head(read)))
         IN (IF st = None THEN <<>>
             ELSE IF st[1] \in PassThrough THEN << <<"stage", st[1]>> >>
             ELSE << <<"stage", st[1]>>, <<"paused", st[1]>> >>)
            \o Expected(Tail(read))

Count(seq, x) == Cardinality({i \in DOMAIN seq : seq[i] = x})
Checkpoints(read) == Cardinality({i \in DOMAIN read : IsCheckpoint(read[i])})
Front(seq) == SubSeq(seq, 1, Len(seq) - 1)

\* C4: every checkpoint marker the reader has read has had its stage event,
\* then its paused event published and SIGSTOP sent to the run's process,
\* unless the reader is at this moment between the stage event and
\* _pause_process for the last marker read; the stage and paused events of a
\* record are in the order of the marker lines read.
C4_PauseBeforeNextRead ==
    \A o \in Objs :
        LET exp == Expected(ev[o].read)
            stops == Count(ev[o].sig, <<"SIGSTOP", "pid">>)
        IN IF tasks[o].reader = "pause"
           THEN /\ ev[o].staged = Front(exp)
                /\ stops = Checkpoints(ev[o].read) - 1
           ELSE /\ ev[o].staged = exp
                /\ stops = Checkpoints(ev[o].read)

\* C5: continue_stage for a registered run that is not paused sends no
\* signal, publishes no event and changes no record: only the request is
\* noted.
C5_ResumeNotPausedIsNoOp ==
    [][\A rid \in DOMAIN runs :
          (~recs[runs[rid]].paused /\ ContinueStage(rid)) =>
              UNCHANGED <<clock, recs, runs, procs, tasks, ev, files, dirs,
                          blocked>>]_vars

\* a resume request was ignored for a launched run that has been paused and
\* resumed before
C5_Witness ==
    /\ last.op = "resume" /\ last.res = "ignored"
    /\ last.rid # None /\ last.rid[1] \in DOMAIN runs
    /\ LET o == runs[last.rid[1]]
       IN /\ recs[o].process /\ ~recs[o].paused
          /\ Len(ev[o].resumed) = 1
          /\ Count(ev[o].sig, <<"SIGCONT", "pid">>) = 1

\* C6: continue_stage for a paused run publishes exactly one resumed event,
\* clears paused and sends SIGCONT, after which the process executes.
C6_ResumePausedResumes ==
    [][\A rid \in DOMAIN runs :
          LET o == runs[rid]
          IN (recs[o].paused /\ ContinueStage(rid)) =>
                 /\ Len(ev'[o].resumed) = Len(ev[o].resumed) + 1
                 /\ ~recs'[o].paused
                 /\ ev'[o].sig = Append(ev[o].sig, <<"SIGCONT", "pid">>)
                 /\ procs'[o].os = "running"]_vars

\* C7: when cancel_run returns for a run whose driver process was running
\* when it was called, no process of the run's group is alive and the run's
\* log directory does not exist.
CancelReturns(rid) ==
    \/ CancelRunNoSignal(rid) /\ Alive(procs[runs[rid]].os)
    \/ CancelRunKill(runs[rid])

C7_CancelKillsGroupAndRemovesDir ==
    [][\A rid \in DOMAIN runs :
          LET o == runs[rid]
          IN CancelReturns(rid) =>
                 /\ ~Alive(procs'[o].os)
                 /\ procs'[o].child # "running"
                 /\ recs[o].log_dir \notin dirs']_vars

\* C8: cancel_run for a registered run whose process has already terminated
\* sends no signal, raises no error and leaves the run record unchanged.
C8_CancelTerminatedIsNoOp ==
    [][\A rid \in DOMAIN runs :
          LET o == runs[rid]
          IN (Exited(o) /\ (CancelRunNoSignal(rid) \/ CancelRunTerm(rid))) =>
                 /\ ev'[o].sig = ev[o].sig
                 /\ last'.res # "error"
                 /\ recs' = recs]_vars

\* C9: for a run id that is not registered, status, cancel, resume and list
\* end in NotFound and leave the registry and the log directories unchanged.
C9_UnknownIdIsNotFound ==
    [][\A rid \in AskedIds \ DOMAIN runs :
          (GetStatus(rid) \/ CancelRunNoSignal(rid) \/ ContinueStage(rid)
               \/ ListLogFiles(rid)) =>
              /\ last'.res = "NotFound"
              /\ UNCHANGED <<recs, runs, dirs, files>>]_vars

\* ---------------------------------------------------------------- claim C10
\* nothing of the run can act any more
Finished(o) ==
    /\ tasks[o].waiter = "done" /\ tasks[o].watcher = "done"
    /\ \A n \in DOMAIN tasks[o].tails :
           tasks[o].tails[n].st \in {"cancelled", "ended"}

\* C10: every line appended to a log file of the run's private directory
\* while the driver was running has been published as a log event of the run
\* by the time the run's tasks have ended.
C10_EveryAppendedLinePublished ==
    \A o \in Objs :
        Finished(o) =>
            \A name \in LogNames :
                \A k \in 1..LinesOf(<<recs[o].log_dir, name>>) :
                    \E i \in DOMAIN ev[o].log :
                        ev[o].log[i] = <<name, recs[o].log_dir, k>>

\* ---------------------------------------------------------- claims C11..C20
\* C11: a run has at most one tailer per log file name; no line is published
\* twice as a log event of the run, and the lines of one file are published
\* in the order they were appended.
C11_OneTailerPerName ==
    \A o \in Objs :
        /\ \A i, j \in Tailers(o) :
               tasks[o].tails[i].name = tasks[o].tails[j].name => i = j
        /\ \A i, j \in DOMAIN ev[o].log :
               i < j => /\ ev[o].log[i] # ev[o].log[j]
                        /\ (ev[o].log[i][1] = ev[o].log[j][1]
                               => ev[o].log[i][3] < ev[o].log[j][3])

\* two files found by the watcher, both lines of each published, the lines of
\* the two files interleaved
C11_Witness ==
    \E o \in Objs :
        /\ Len(tasks[o].tails) = 2
        /\ Len(ev[o].log) = 4
        /\ ev[o].log[1][1] = ev[o].log[3][1]
        /\ ev[o].log[2][1] = ev[o].log[4][1]
        /\ ev[o].log[1][1] # ev[o].log[2][1]

\* C12: a record's return_code is unset while its driver process is alive;
\* it changes only in the exit waiter's step after process.wait(), from unset
\* to a value, and a set return_code is kept by every later step.
C12_ReturnCodeSetOnce ==
    [][\A o \in Objs :
          /\ Alive(procs'[o].os) => recs'[o].return_code = None
          /\ recs[o].return_code # None =>
                 recs'[o].return_code = recs[o].return_code
          /\ recs'[o].return_code # recs[o].return_code =>
                 /\ tasks[o].waiter = "wait" /\ tasks'[o].waiter = "emit"
                 /\ Exited(o)]_vars

\* a run paused at a checkpoint, killed by cancel, its return_code set by the
\* waiter, and a resume request for it that failed on the released pid
C12_Witness ==
    \E o \in Objs :
        /\ recs[o].return_code = Some(-9)
        /\ recs[o].paused
        /\ tasks[o].waiter = "done"
        /\ last.op = "resume" /\ last.res = "error"

\* C13: whenever a task is suspended, a run whose paused flag is true has its
\* pending_stage set, to the stage of a checkpoint marker its reader has read.
C13_PausedHasPendingStage ==
    \A o \in Objs :
        recs[o].paused =>
            /\ recs[o].pending_stage # None
            /\ \E i \in DOMAIN ev[o].read :
                   /\ IsCheckpoint(ev[o].read[i])
                   /\ StageOf(LineText(ev[o].read[i])) = recs[o].pending_stage

\* a run paused at its second checkpoint, after the first was resumed
C13_Witness ==
    \E o \in Objs :
        /\ recs[o].paused
        /\ recs[o].pending_stage = Some(<<"B", "A", "R">>)
        /\ ev[o].resumed = << Some(<<"F", "O", "O">>) >>

\* C14: while a run's paused flag is true no live process of its process
\* group executes, the driver's children included; and every SIGCONT sent
\* for the run goes to the group.
C14_PauseSuspendsGroup ==
    \A o \in Objs :
        /\ recs[o].paused =>
               procs[o].os # "running" /\ procs[o].child # "running"
        /\ \A i \in DOMAIN ev[o].sig :
               ev[o].sig[i][1] = "SIGCONT" => ev[o].sig[i][2] = "group"

\* C15: in every state in which a run's return_code is set, its paused flag
\* is false.
C15_NotPausedAfterExit ==
    \A o \in Objs : recs[o].return_code # None => ~recs[o].paused

\* C16: in every state in which a run's paused flag is false, its
\* pending_stage is unset: resume clears it after the resumed event.
C16_PendingStageOnlyWhilePaused ==
    \A o \in Objs : ~recs[o].paused => recs[o].pending_stage = None

\* C17: a tailer task is added to a run only in a step that starts with the
\* process handle's returncode and the record's return_code both unset; once
\* return_code is set the run's list of tailers does not grow.
C17_NoTailerAfterExit ==
    [][\A o \in Objs :
          Len(tasks'[o].tails) # Len(tasks[o].tails) =>
              /\ procs[o].returncode = None
              /\ recs[o].return_code = None]_vars

\* the run has ended with one tailer, and a log file that was created after
\* the watcher's last cycle has no tailer
C17_Witness ==
    \E o \in Objs :
        /\ recs[o].return_code # None
        /\ tasks[o].watcher = "done"
        /\ Len(tasks[o].tails) = 1
        /\ \E p \in Found(o) : p[2] \notin tasks[o].seen

\* C18: once the exit waiter and the watcher of a run have ended, every
\* tailer task of the run is cancelled; and a tailer task that has ended has
\* no `tail -F` process alive, wherever the cancellation reached it.
C18_NoTailSurvivesCancel ==
    \A o \in Objs :
        /\ (tasks[o].waiter = "done" /\ tasks[o].watcher = "done") =>
               \A i \in Tailers(o) :
                   tasks[o].tails[i].st \in {"cancelled", "ended"}
        /\ \A i \in Tailers(o) :
               tasks[o].tails[i].st = "ended" =>
                   tasks[o].tails[i].proc # "alive"

\* two tailers have ended, one cancelled while it was spawning tail and one
\* while it was following its file; both tail processes are dead
C18_Witness ==
    \E o \in Objs :
        \E i, j \in Tailers(o) :
            /\ tasks[o].tails[i].st = "ended"
            /\ tasks[o].tails[i].at = "spawn"
            /\ tasks[o].tails[i].proc = "dead"
            /\ tasks[o].tails[j].st = "ended"
            /\ tasks[o].tails[j].at = "follow"
            /\ tasks[o].tails[j].proc = "dead"

\* the text of the lines the reader has taken from the pipe, in their order
TextsRead(o) == [i \in DOMAIN ev[o].read |-> LineText(ev[o].read[i])]

\* C19: the driver log events of a run are, in order and verbatim, the lines
\* its reader has read; and when the reader task has ended, every line the
\* driver wrote has been read and published.
C19_EveryStdoutLinePublished ==
    \A o \in Objs :
        /\ Len(ev[o].driverlog) <= Len(ev[o].read)
        /\ ev[o].driverlog = SubSeq(TextsRead(o), 1, Len(ev[o].driverlog))
        /\ tasks[o].reader \in {"done", "crashed"} =>
               /\ procs[o].stdout = <<>>
               /\ ev[o].driverlog = TextsRead(o)

\* C20: while the cancel of one run is between its SIGTERM and its SIGKILL,
\* the tasks of every other run can take their steps: a reader whose pipe
\* holds a line can read it and publish its event.
C20_CancelDoesNotBlockOthers ==
    \A o, p \in Objs :
        (blocked = o /\ p # o /\ tasks[p].reader = "read"
                     /\ procs[p].stdout # <<>>) =>
            ENABLED (ReaderPlainLine(p) \/ ReaderMarkerLine(p))

\* --------------------------------------------------------- claims C21..C23
\* the reader has published the paused event of a checkpoint and not yet the
\* log event of its marker line
AfterPausedEvent(o) == tasks[o].reader \in {"alert", "hung"}

\* C21: the notification does not hold the reader: once the paused event of
\* a checkpoint is published, the reader can publish the log event of the
\* marker line whatever the Notification Sink does, and once the run is
\* resumed the lines the driver writes then are read.
C21_AlertDoesNotHoldReader ==
    \A o \in Objs :
        (AfterPausedEvent(o) /\ blocked = 0) => ENABLED ReaderAlertDone(o)

\* the start_run that made record o has ended with the exception of
\* create_subprocess_exec: no process was ever started for it
SpawnFailed(o) == tasks[o].start = "failed"

\* C22: no record in the registry with an unset return_code belongs to a
\* start_run whose process launch failed, and get_active_run_id never
\* returns the id of such a run.
C22_FailedStartLeavesNoRecord ==
    /\ \A o \in Active : ~SpawnFailed(o)
    /\ GetActiveRunId # None => ~SpawnFailed(runs[GetActiveRunId[1]])

\* the last request served is a cancel of run o that returned without error
CancelledOk(o) ==
    /\ o \in Registered
    /\ last = Request("cancel", Some(recs[o].id), "ok")

\* C23: when cancel_run has returned without error for a registered run, no
\* process of that run is alive, whatever start_run was doing when the cancel
\* ran; in particular there is no running driver whose log directory the
\* cancel has removed.
C23_NoProcessAfterCancel ==
    \A o \in Objs :
        CancelledOk(o) =>
            /\ ~Alive(procs[o].os)
            /\ procs[o].child # "running"
            /\ ~(Alive(procs[o].os) /\ recs[o].log_dir \notin dirs)

====
